---- MODULE Spec2Model ----
(***************************************************************************)
(* HeathScript: the marble contraption engine (Contraption.tick and        *)
(* Contraption.moveMarbles), the cell catalogue (Cell.from and the cell    *)
(* classes) and the program builder (compile).                             *)
(*                                                                         *)
(* Marble and Cell objects are shared by reference between the Contraption *)
(* objects that tick() and moveMarbles() return, so marbles live in a heap *)
(* (a sequence indexed by object identity) and a Contraption holds lists   *)
(* of heap indices.  Coordinates are 0-based as in the source.             *)
(***************************************************************************)
EXTENDS Integers, Sequences, FiniteSets, TLC

VARIABLES
    grid,         \* Contraption.grid: rows of Cell objects (fixed after compile)
    errors,       \* CompilerContext.errors of the last compile() of start()
    heap,         \* the Marble objects ever allocated, by identity
    cellAct,      \* coordinates of the Cell objects whose activatedThisTick is set
    contraption,  \* the Contraption the host holds (the last one returned)
    receiver,     \* the Contraption the last transition was called on, as it is now
    observed,     \* what the receiver's queries returned just before that call
    pc,           \* the last thing done to the contraption: "settled" (built, or
                  \* returned by moveMarbles), "ticked" (returned by tick), "stopped"
                  \* (dropped by stop()), "hung" (inside a loop for good), "idle"
                  \* (none built yet)
    cycles,       \* completed moveMarbles calls
    source,       \* the page's source: the program text the last start() took
    running,      \* the page's running (the host holds a contraption exactly then)
    timers,       \* the pending setTimeout callbacks, [id, fn] with fn "tick" or "move"
    timeout,      \* the page's timeout: the handle stored last, Null at first
    starts        \* calls of start() so far

vars == <<grid, errors, heap, cellAct, contraption, receiver, observed, pc, cycles,
          source, running, timers, timeout, starts>>

----------------------------------------------------------------------------
(* Bounds of the exploration *)

MaxCycles == 8

MaxStarts == 2

(* Program constants *)

Null == 0
ByteModulus == 256

----------------------------------------------------------------------------
(* Generic helpers *)

Min(S) == CHOOSE m \in S : \A n \in S : m <= n

Max(a, b) == IF a >= b THEN a ELSE b

RECURSIVE MaxOf(_)
MaxOf(seq) == IF seq = <<>> THEN 0 ELSE Max(Head(seq), MaxOf(Tail(seq)))

(* JavaScript's % : the remainder takes the sign of the dividend. *)
JsRem(a, b) == IF a >= 0 THEN a % b ELSE -((-a) % b)

DecDigits == <<"0", "1", "2", "3", "4", "5", "6", "7", "8", "9">>

HexDigits == <<"0", "1", "2", "3", "4", "5", "6", "7", "8", "9", "a", "b", "c", "d", "e", "f">>

RECURSIVE Radix(_, _, _)
Radix(n, base, digits) ==
    IF n < base THEN <<digits[n + 1]>>
    ELSE Radix(n \div base, base, digits) \o <<digits[(n % base) + 1]>>

(* faulty variant: the value is written in hexadecimal *)
StringHex(v) == IF v < 0 THEN <<"-">> \o Radix(-v, 16, HexDigits) ELSE Radix(v, 16, HexDigits)

(* String(value) of an integer: decimal digits, "-" first when negative. *)
String(v) == IF v < 0 THEN <<"-">> \o Radix(-v, 10, DecDigits) ELSE Radix(v, 10, DecDigits)

(* value.toString(16).padStart(2, "0") *)
Hex2(v) ==
    LET s == IF v < 0 THEN <<"-">> \o Radix(-v, 16, HexDigits) ELSE Radix(v, 16, HexDigits)
    IN  IF Len(s) < 2 THEN <<"0">> \o s ELSE s

----------------------------------------------------------------------------
(* Direction, move, opposite *)

Direction == {"^", "v", "<", ">"}

move(x, y, dir) ==
    CASE dir = "^" -> <<x, y - 1>>
      [] dir = "v" -> <<x, y + 1>>
      [] dir = "<" -> <<x - 1, y>>
      [] dir = ">" -> <<x + 1, y>>

opposite(dir) ==
    CASE dir = "^" -> "v"
      [] dir = "v" -> "^"
      [] dir = "<" -> ">"
      [] dir = ">" -> "<"

(* getSymbols(s): the symbols s+d and d+s, each with its direction d. *)
getSymbols(s) == { <<<<s, d>>, d>> : d \in Direction } \cup { <<<<d, s>>, d>> : d \in Direction }

----------------------------------------------------------------------------
(* Cell.from: a chunk (a sequence of one or two characters) to a Cell.     *)
(* A Cell is [class, direction]; its x, y are its place in the grid.       *)

NoDir == "-"

NewCell(class, dir) == [class |-> class, direction |-> dir]

Air == NewCell("Air", NoDir)

CellFrom(symbol) ==
    CASE symbol = <<" ", " ">>   -> Air
      [] symbol = <<".", ".">>   -> Air
      [] symbol = <<"#", "#">>   -> NewCell("Wall", NoDir)
      [] symbol = <<"o", "o">>   -> NewCell("Output", NoDir)
      [] symbol = <<"+", "+">>   -> NewCell("Increment", NoDir)
      [] symbol = <<"-", "-">>   -> NewCell("Decrement", NoDir)
      [] symbol = <<"x", "x">>   -> NewCell("Delete", NoDir)
      [] symbol = <<"\"", "\"">> -> NewCell("Sieve", NoDir)
      [] OTHER ->
           IF Len(symbol) = 2 /\ symbol[1] \in Direction /\ symbol[1] = symbol[2]
           THEN NewCell("Conveyor", symbol[1])
           ELSE IF \E p \in getSymbols("+") : p[1] = symbol
           THEN NewCell("Adder", (CHOOSE p \in getSymbols("+") : p[1] = symbol)[2])
           ELSE IF \E p \in getSymbols(":") : p[1] = symbol
           THEN NewCell("Cloner", (CHOOSE p \in getSymbols(":") : p[1] = symbol)[2])
           ELSE NewCell("ErrorCell", NoDir)

----------------------------------------------------------------------------
(* compile: source text (a sequence of lines, each a sequence of           *)
(* characters) to the grid, the marbles and the diagnostics.               *)

HexUpper == <<"0", "1", "2", "3", "4", "5", "6", "7", "8", "9", "A", "B", "C", "D", "E", "F">>

IsHexDigit(ch) == \E i \in 1..16 : HexDigits[i] = ch \/ HexUpper[i] = ch

HexDigitValue(ch) == (CHOOSE i \in 1..16 : HexDigits[i] = ch \/ HexUpper[i] = ch) - 1

(* /^[0-9a-f]{2}$/i.test(chunk) *)
IsHexChunk(chunk) == Len(chunk) = 2 /\ IsHexDigit(chunk[1]) /\ IsHexDigit(chunk[2])

(* parseInt(chunk, 16) of a chunk that passed the test *)
parseInt16(chunk) == 16 * HexDigitValue(chunk[1]) + HexDigitValue(chunk[2])

Whitespace == {" ", "\t"}

RECURSIVE trimEnd(_)
trimEnd(line) ==
    IF line # <<>> /\ line[Len(line)] \in Whitespace
    THEN trimEnd(SubSeq(line, 1, Len(line) - 1))
    ELSE line

(* faulty variant: chunks of two only, a last single character dropped *)
RECURSIVE ChunksOfTwo(_)
ChunksOfTwo(line) ==
    IF Len(line) < 2 THEN <<>>
    ELSE <<SubSeq(line, 1, 2)>> \o ChunksOfTwo(SubSeq(line, 3, Len(line)))

(* line.match(/.{1,2}/g) ?? [] : greedy chunks of two, a last chunk of one *)
RECURSIVE Chunks(_)
Chunks(line) ==
    IF Len(line) = 0 THEN <<>>
    ELSE IF Len(line) = 1 THEN <<line>>
    ELSE <<SubSeq(line, 1, 2)>> \o Chunks(SubSeq(line, 3, Len(line)))

createSpan(startLineNumber, startColumn, endLineNumber, endColumn) ==
    [startLineNumber |-> startLineNumber, startColumn |-> startColumn,
     endLineNumber |-> endLineNumber, endColumn |-> endColumn]

CellSpan(x, y) == createSpan(y + 1, x * 2 + 1, y + 1, x * 2 + 3)

NewMarble(value, x, y, moved, act) ==
    [value |-> value, x |-> x, y |-> y, movedThisTick |-> moved, activatedThisTick |-> act]

(* One row of the source (0-based y): its cells, marbles and diagnostics. *)
CompileRow(line, y) ==
    LET chunks == Chunks(trimEnd(line))
        n == Len(chunks)
        hexAt == { i \in 1..n : IsHexChunk(chunks[i]) }
        errAt == { i \in 1..n : ~IsHexChunk(chunks[i]) /\ CellFrom(chunks[i]).class = "ErrorCell" }
        RECURSIVE Pick(_, _)
        Pick(i, kind) ==
            IF i > n THEN <<>>
            ELSE (IF kind = "marble" /\ i \in hexAt
                    THEN <<NewMarble(parseInt16(chunks[i]), i - 1, y, FALSE, FALSE)>>
                  ELSE IF kind = "error" /\ i \in errAt
                    THEN <<[message |-> <<"Unknown symbol", chunks[i]>>, span |-> CellSpan(i - 1, y)]>>
                  ELSE <<>>) \o Pick(i + 1, kind)
    IN  [cells   |-> [i \in 1..n |-> IF i \in hexAt THEN Air ELSE CellFrom(chunks[i])],
         marbles |-> Pick(1, "marble"),
         errors  |-> Pick(1, "error")]

RECURSIVE Concat(_)
Concat(seqs) == IF seqs = <<>> THEN <<>> ELSE Head(seqs) \o Concat(Tail(seqs))

compile(text) ==
    LET rows   == [j \in 1..Len(text) |-> CompileRow(text[j], j - 1)]
        width  == MaxOf([j \in 1..Len(text) |-> Len(rows[j].cells)])
        height == Len(text)
    IN  [grid    |-> [j \in 1..height |->
                        [i \in 1..width |-> IF i <= Len(rows[j].cells) THEN rows[j].cells[i] ELSE Air]],
         marbles |-> Concat([j \in 1..height |-> rows[j].marbles]),
         errors  |-> Concat([j \in 1..height |-> rows[j].errors])]

----------------------------------------------------------------------------
(* The engine.  A world w is everything a transition reads and writes:     *)
(*   w.grid     the Cell objects,                                          *)
(*   w.heap     the Marble objects,                                        *)
(*   w.cellAct  the cells' activatedThisTick flags,                        *)
(*   w.c        the fields of the Contraption the method runs on (this).   *)

NewContraption(marbles, output, pendingSpawns, pendingMoves, pendingDeletes) ==
    [marbles |-> marbles, output |-> output, pendingSpawns |-> pendingSpawns,
     pendingMoves |-> pendingMoves, pendingDeletes |-> pendingDeletes]

Height(w) == Len(w.grid)

Width(w) == IF Len(w.grid) = 0 THEN 0 ELSE Len(w.grid[1])

NoCell == [class |-> "null", direction |-> NoDir]

(* faulty variant: a coordinate outside the grid reads as an Air cell *)
getCellAirOutside(w, x, y) ==
    IF y >= 0 /\ y < Height(w) /\ x >= 0 /\ x < Width(w) THEN w.grid[y + 1][x + 1] ELSE Air

(* this.grid[y]?.[x] ?? null *)
getCell(w, x, y) ==
    IF y >= 0 /\ y < Height(w) /\ x >= 0 /\ x < Width(w) THEN w.grid[y + 1][x + 1] ELSE NoCell

(* this.marbles.find((m) => m.x === x && m.y === y) ?? null *)
getMarble(w, x, y) ==
    LET at == { i \in 1..Len(w.c.marbles) : w.heap[w.c.marbles[i]].x = x /\ w.heap[w.c.marbles[i]].y = y }
    IN  IF at = {} THEN Null ELSE w.c.marbles[Min(at)]

(* faulty variant: the line is put in front of the buffer *)
printLineInFront(w, line) == [w EXCEPT !.c.output = line \o <<"\n">> \o @]

printLine(w, line) == [w EXCEPT !.c.output = @ \o line \o <<"\n">>]

(* spawn pushes a new Marble object on pendingSpawns *)
spawn(w, value, x, y) ==
    [w EXCEPT !.heap = Append(@, NewMarble(value, x, y, TRUE, TRUE)),
              !.c.pendingSpawns = Append(@, Len(w.heap) + 1)]

(* faulty variant: the marble is relocated at once instead of being queued *)
ContraptionMoveAtOnce(w, marble, targetX, targetY) ==
    [w EXCEPT !.heap[marble].x = targetX, !.heap[marble].y = targetY]

ContraptionMove(w, marble, targetX, targetY) ==
    [w EXCEPT !.c.pendingMoves = Append(@, [marble |-> marble, targetX |-> targetX, targetY |-> targetY])]

remove(w, marble) == [w EXCEPT !.c.pendingDeletes = Append(@, marble)]

(* faulty variant: a Wall is passable *)
isSolidWallOpen(w, x, y) ==
    LET cell == getCell(w, x, y)
    IN  CASE cell.class \in {"Air", "Conveyor", "Output", "Increment", "Decrement", "Delete", "Wall"} -> FALSE
          [] cell.class \in {"ErrorCell", "Adder", "Cloner"} -> TRUE
          [] cell.class = "Sieve" ->
               LET marble == getMarble(w, x, y - 1)
               IN  marble = Null \/ w.heap[marble].value # 0

(* faulty variant: the Sieve opens for a marble of non-zero value *)
isSolidSieveInverted(w, x, y) ==
    LET cell == getCell(w, x, y)
    IN  CASE cell.class \in {"Air", "Conveyor", "Output", "Increment", "Decrement", "Delete"} -> FALSE
          [] cell.class \in {"Wall", "ErrorCell", "Adder", "Cloner"} -> TRUE
          [] cell.class = "Sieve" ->
               LET marble == getMarble(w, x, y - 1)
               IN  marble = Null \/ w.heap[marble].value = 0

(* isSolid of the cell at (x, y): PassableCell, SolidCell, Sieve *)
isSolid(w, x, y) ==
    LET cell == getCell(w, x, y)
    IN  CASE cell.class \in {"Air", "Conveyor", "Output", "Increment", "Decrement", "Delete"} -> FALSE
          [] cell.class \in {"Wall", "ErrorCell", "Adder", "Cloner"} -> TRUE
          [] cell.class = "Sieve" ->
               LET marble == getMarble(w, x, y - 1)
               IN  marble = Null \/ w.heap[marble].value # 0

ConveyorTick(w, x, y) ==
    LET marble == getMarble(w, x, y)
        t == move(x, y, getCell(w, x, y).direction)
    IN  IF marble = Null THEN w
        ELSE [ContraptionMove(w, marble, t[1], t[2]) EXCEPT !.cellAct = @ \cup {<<x, y>>}]

(* affect of Output, Increment, Decrement, Delete; each returns true *)
affect(w, class, marble) ==
    CASE class = "Output"    -> printLine(w, String(w.heap[marble].value))
      [] class = "Increment" -> [w EXCEPT !.heap[marble].value = @ + 1]
      [] class = "Decrement" -> [w EXCEPT !.heap[marble].value = @ - 1]
      [] class = "Delete"    -> remove(w, marble)

PassableAffectorTick(w, x, y) ==
    LET marble == getMarble(w, x, y)
    IN  IF marble = Null THEN w
        ELSE [affect(w, getCell(w, x, y).class, marble) EXCEPT
                 !.heap[marble].activatedThisTick = TRUE,
                 !.cellAct = @ \cup {<<x, y>>}]

(* Adder: operator (a, b) => a + b *)
DirectionalBinaryOperatorTick(w, x, y) ==
    LET dir == getCell(w, x, y).direction
        a == move(x, y, opposite(dir))
        marbleA == getMarble(w, a[1], a[2])
        b == move(x, y, dir)
        marbleB == getMarble(w, b[1], b[2])
    IN  IF marbleA = Null THEN w
        ELSE IF marbleB = Null THEN w
        ELSE [w EXCEPT !.heap[marbleB].value = w.heap[marbleA].value + w.heap[marbleB].value,
                       !.heap[marbleB].activatedThisTick = TRUE,
                       !.cellAct = @ \cup {<<x, y>>}]

(* faulty variant: the Cloner consumes its source *)
ClonerTickConsumes(w, x, y) ==
    LET dir == getCell(w, x, y).direction
        s == move(x, y, opposite(dir))
        marble == getMarble(w, s[1], s[2])
        t == move(x, y, dir)
    IN  IF marble = Null THEN w
        ELSE IF getCell(w, t[1], t[2]) = NoCell \/ isSolid(w, t[1], t[2]) THEN w
        ELSE [remove(spawn(w, w.heap[marble].value, t[1], t[2]), marble) EXCEPT
                 !.heap[marble].activatedThisTick = TRUE,
                 !.cellAct = @ \cup {<<x, y>>}]

ClonerTick(w, x, y) ==
    LET dir == getCell(w, x, y).direction
        s == move(x, y, opposite(dir))
        marble == getMarble(w, s[1], s[2])
        t == move(x, y, dir)
    IN  IF marble = Null THEN w
        ELSE IF getCell(w, t[1], t[2]) = NoCell \/ isSolid(w, t[1], t[2]) THEN w
        ELSE [spawn(w, w.heap[marble].value, t[1], t[2]) EXCEPT
                 !.heap[marble].activatedThisTick = TRUE,
                 !.cellAct = @ \cup {<<x, y>>}]

(* cell.tick(contraption), by class *)
CellTick(w, x, y) ==
    LET class == getCell(w, x, y).class
    IN  CASE class = "Conveyor" -> ConveyorTick(w, x, y)
          [] class \in {"Output", "Increment", "Decrement", "Delete"} -> PassableAffectorTick(w, x, y)
          [] class = "Adder" -> DirectionalBinaryOperatorTick(w, x, y)
          [] class = "Cloner" -> ClonerTick(w, x, y)
          [] OTHER -> w

(* for (const marble of this.marbles) marble.movedThisTick = false *)
resetMarbles(w) ==
    [w EXCEPT !.heap = [id \in DOMAIN w.heap |->
        IF \E i \in 1..Len(w.c.marbles) : w.c.marbles[i] = id
        THEN [w.heap[id] EXCEPT !.movedThisTick = FALSE] ELSE w.heap[id]]]

(* faulty variant: the cells' flags are left as they are *)
resetActivationOfMarbles(w) ==
    [w EXCEPT !.heap = [id \in DOMAIN w.heap |->
                IF \E i \in 1..Len(w.c.marbles) : w.c.marbles[i] = id
                THEN [w.heap[id] EXCEPT !.activatedThisTick = FALSE] ELSE w.heap[id]]]

resetActivation(w) ==
    [w EXCEPT !.heap = [id \in DOMAIN w.heap |->
                IF \E i \in 1..Len(w.c.marbles) : w.c.marbles[i] = id
                THEN [w.heap[id] EXCEPT !.activatedThisTick = FALSE] ELSE w.heap[id]],
              !.cellAct = {}]

(* The row-major scan of the cells k .. n-1 (cell k is x = k % width,       *)
(* y = k \div width): the first half of the range, then the second on the  *)
(* world the first half left (the set binds that world to its value, so the *)
(* evaluation nests no deeper than the halving). *)
RECURSIVE ScanTo(_, _, _)
ScanTo(w, k, n) ==
    IF k >= n THEN w
    ELSE IF n = k + 1 THEN CellTick(w, k % Width(w), k \div Width(w))
    ELSE CHOOSE r \in { ScanTo(half, (k + n) \div 2, n) : half \in {ScanTo(w, k, (k + n) \div 2)} } : TRUE

(* for y, for x: cell.tick(this), from cell k on *)
Scan(w, k) == ScanTo(w, k, Width(w) * Height(w))

(* marble.value = Math.max(0, marble.value % 256) *)
ClampValue(v) == Max(0, JsRem(v, ByteModulus))

(* faulty variant: the clamp reaches every Marble object, queued spawns included *)
ClampEveryObject(w) ==
    [w EXCEPT !.heap = [id \in DOMAIN w.heap |-> [w.heap[id] EXCEPT !.value = ClampValue(@)]]]

Clamp(w) ==
    [w EXCEPT !.heap = [id \in DOMAIN w.heap |->
        IF \E i \in 1..Len(w.c.marbles) : w.c.marbles[i] = id
        THEN [w.heap[id] EXCEPT !.value = ClampValue(@)] ELSE w.heap[id]]]

(* Contraption.tick: the world it leaves; the Contraption it returns holds   *)
(* copies of the receiver's lists, so its fields equal w.c.                  *)
tick(w) ==
    CHOOSE r \in { Clamp(Scan(w0, 0)) : w0 \in {resetActivation(resetMarbles(w))} } : TRUE

----------------------------------------------------------------------------
(* Contraption.moveMarbles, sub-phase by sub-phase *)

(* this.marbles.indexOf(marble), 0-based, -1 when absent *)
indexOf(seq, e) ==
    LET at == { i \in 1..Len(seq) : seq[i] = e }
    IN  IF at = {} THEN -1 ELSE Min(at) - 1

(* seq.splice(idx, 1): a negative idx counts from the end *)
splice1(seq, idx) ==
    LET i == IF idx < 0 THEN Max(Len(seq) + idx, 0) ELSE idx
    IN  IF i >= Len(seq) THEN seq
        ELSE SubSeq(seq, 1, i) \o SubSeq(seq, i + 2, Len(seq))

RECURSIVE DeleteAll(_, _)
DeleteAll(marbles, pendingDeletes) ==
    IF pendingDeletes = <<>> THEN marbles
    ELSE DeleteAll(splice1(marbles, indexOf(marbles, Head(pendingDeletes))), Tail(pendingDeletes))

ApplyDeletes(w) ==
    [w EXCEPT !.c.marbles = DeleteAll(w.c.marbles, w.c.pendingDeletes),
              !.c.pendingDeletes = <<>>]

(* faulty variant: a request whose target is occupied is dropped, pending occupant  *)
(* or not *)
RECURSIVE ResolveMovesNoRetry(_, _, _)
ResolveMovesNoRetry(w, queue, stall) ==
    IF queue = <<>> THEN [w |-> w, hung |-> FALSE]
    ELSE
      LET mv == Head(queue)
          rest == Tail(queue)
      IN  IF getMarble(w, mv.targetX, mv.targetY) # Null
          THEN ResolveMovesNoRetry(w, rest, 0)
          ELSE IF getCell(w, mv.targetX, mv.targetY) = NoCell \/ isSolid(w, mv.targetX, mv.targetY)
          THEN ResolveMovesNoRetry(w, rest, 0)
          ELSE ResolveMovesNoRetry([w EXCEPT !.heap[mv.marble].x = mv.targetX,
                                             !.heap[mv.marble].y = mv.targetY,
                                             !.heap[mv.marble].movedThisTick = TRUE], rest, 0)

(* faulty variant: a request is committed onto an occupied cell when the occupant   *)
(* has no request of its own *)
RECURSIVE ResolveMovesOntoOccupied(_, _, _)
ResolveMovesOntoOccupied(w, queue, stall) ==
    IF queue = <<>> THEN [w |-> w, hung |-> FALSE]
    ELSE IF stall >= Len(queue) THEN [w |-> w, hung |-> TRUE]
    ELSE
      LET mv == Head(queue)
          rest == Tail(queue)
          obstacle == getMarble(w, mv.targetX, mv.targetY)
      IN  IF obstacle # Null /\ \E i \in 1..Len(rest) : rest[i].marble = obstacle
          THEN ResolveMovesOntoOccupied(w, Append(rest, mv), stall + 1)
          ELSE IF getCell(w, mv.targetX, mv.targetY) = NoCell \/ isSolid(w, mv.targetX, mv.targetY)
          THEN ResolveMovesOntoOccupied(w, rest, 0)
          ELSE ResolveMovesOntoOccupied([w EXCEPT !.heap[mv.marble].x = mv.targetX,
                                                  !.heap[mv.marble].y = mv.targetY,
                                                  !.heap[mv.marble].movedThisTick = TRUE], rest, 0)

(* The FIFO move queue.  The while loop has no bound of its own: when every *)
(* request left in the queue has just been re-enqueued in turn, the queue   *)
(* and the marbles are exactly as they were one round earlier, so the loop  *)
(* never ends; stall counts the consecutive re-enqueues and the result      *)
(* reports that as hung.                                                    *)
RECURSIVE ResolveMoves(_, _, _)
ResolveMoves(w, queue, stall) ==
    IF queue = <<>> THEN [w |-> w, hung |-> FALSE]
    ELSE IF stall >= Len(queue) THEN [w |-> w, hung |-> TRUE]
    ELSE
      LET mv == Head(queue)
          rest == Tail(queue)
          obstacle == getMarble(w, mv.targetX, mv.targetY)
      IN  IF obstacle # Null
          THEN IF \E i \in 1..Len(rest) : rest[i].marble = obstacle
               THEN ResolveMoves(w, Append(rest, mv), stall + 1)
               ELSE ResolveMoves(w, rest, 0)
          ELSE IF getCell(w, mv.targetX, mv.targetY) = NoCell \/ isSolid(w, mv.targetX, mv.targetY)
          THEN ResolveMoves(w, rest, 0)
          ELSE ResolveMoves([w EXCEPT !.heap[mv.marble].x = mv.targetX,
                                      !.heap[mv.marble].y = mv.targetY,
                                      !.heap[mv.marble].movedThisTick = TRUE], rest, 0)

(* this.marbles.filter((m) => !m.movedThisTick) *)
RECURSIVE Unmoved(_, _)
Unmoved(w, marbles) ==
    IF marbles = <<>> THEN <<>>
    ELSE (IF w.heap[Head(marbles)].movedThisTick THEN <<>> ELSE <<Head(marbles)>>)
         \o Unmoved(w, Tail(marbles))

(* faulty variant: a marble that fell is put back in the queue and keeps falling *)
RECURSIVE GravityKeepsFalling(_, _, _)
GravityKeepsFalling(w, queue, stall) ==
    IF queue = <<>> THEN [w |-> w, hung |-> FALSE]
    ELSE IF stall >= Len(queue) THEN [w |-> w, hung |-> TRUE]
    ELSE
      LET marble == Head(queue)
          rest == Tail(queue)
          m == w.heap[marble]
          marbleBelow == getMarble(w, m.x, m.y + 1)
      IN  IF marbleBelow # Null
          THEN IF ~w.heap[marbleBelow].movedThisTick
               THEN GravityKeepsFalling(w, Append(rest, marble), stall + 1)
               ELSE GravityKeepsFalling([w EXCEPT !.heap[marble].movedThisTick = TRUE], rest, 0)
          ELSE IF getCell(w, m.x, m.y + 1) = NoCell \/ isSolid(w, m.x, m.y + 1)
          THEN GravityKeepsFalling([w EXCEPT !.heap[marble].movedThisTick = TRUE], rest, 0)
          ELSE GravityKeepsFalling([w EXCEPT !.heap[marble].y = @ + 1], Append(rest, marble), 0)

(* faulty variant: a marble over a marble that has not settled settles at  *)
(* once instead of waiting *)
RECURSIVE GravityNoWait(_, _, _)
GravityNoWait(w, queue, stall) ==
    IF queue = <<>> THEN [w |-> w, hung |-> FALSE]
    ELSE
      LET marble == Head(queue)
          rest == Tail(queue)
          m == w.heap[marble]
      IN  IF getMarble(w, m.x, m.y + 1) # Null
          THEN GravityNoWait([w EXCEPT !.heap[marble].movedThisTick = TRUE], rest, 0)
          ELSE IF getCell(w, m.x, m.y + 1) = NoCell \/ isSolid(w, m.x, m.y + 1)
          THEN GravityNoWait([w EXCEPT !.heap[marble].movedThisTick = TRUE], rest, 0)
          ELSE GravityNoWait([w EXCEPT !.heap[marble].y = @ + 1], rest, 0)

(* The gravity queue, with the same account of a loop that never ends. *)
RECURSIVE Gravity(_, _, _)
Gravity(w, queue, stall) ==
    IF queue = <<>> THEN [w |-> w, hung |-> FALSE]
    ELSE IF stall >= Len(queue) THEN [w |-> w, hung |-> TRUE]
    ELSE
      LET marble == Head(queue)
          rest == Tail(queue)
          m == w.heap[marble]
          marbleBelow == getMarble(w, m.x, m.y + 1)
      IN  IF marbleBelow # Null
          THEN IF ~w.heap[marbleBelow].movedThisTick
               THEN Gravity(w, Append(rest, marble), stall + 1)
               ELSE Gravity([w EXCEPT !.heap[marble].movedThisTick = TRUE], rest, 0)
          ELSE IF getCell(w, m.x, m.y + 1) = NoCell \/ isSolid(w, m.x, m.y + 1)
          THEN Gravity([w EXCEPT !.heap[marble].movedThisTick = TRUE], rest, 0)
          ELSE Gravity([w EXCEPT !.heap[marble].y = @ + 1], rest, 0)

RECURSIVE SpawnAll(_, _)
SpawnAll(w, pendingSpawns) ==
    IF pendingSpawns = <<>> THEN w
    ELSE LET marble == Head(pendingSpawns)
         IN  IF getMarble(w, w.heap[marble].x, w.heap[marble].y) # Null
             THEN SpawnAll(w, Tail(pendingSpawns))
             ELSE SpawnAll([w EXCEPT !.c.marbles = Append(@, marble)], Tail(pendingSpawns))

(* faulty variant: every requested marble is materialised, occupied target or not *)
ApplySpawnsUnchecked(w) ==
    [w EXCEPT !.c.marbles = @ \o w.c.pendingSpawns, !.c.pendingSpawns = <<>>]

ApplySpawns(w) == [SpawnAll(w, w.c.pendingSpawns) EXCEPT !.c.pendingSpawns = <<>>]

AfterDeletes(w) == ApplyDeletes(resetActivation(w))

AfterMoves(w) == ResolveMoves(AfterDeletes(w), w.c.pendingMoves, 0)

AfterGravity(w) ==
    LET r == AfterMoves(w)
    IN  IF r.hung THEN r ELSE Gravity(r.w, Unmoved(r.w, r.w.c.marbles), 0)

(* faulty variant: the deletions are applied last, after the spawns *)
moveMarblesDeletesLast(w) ==
    LET r0 == ResolveMoves(resetActivation(w), w.c.pendingMoves, 0)
        r == IF r0.hung THEN r0 ELSE Gravity(r0.w, Unmoved(r0.w, r0.w.c.marbles), 0)
    IN  IF r.hung THEN r ELSE [w |-> ApplyDeletes(ApplySpawns(r.w)), hung |-> FALSE]

(* Contraption.moveMarbles: the world it leaves (w.c is the receiver), or   *)
(* hung when one of its loops never ends.                                   *)
moveMarbles(w) ==
    LET r == AfterGravity(w)
    IN  IF r.hung THEN r ELSE [w |-> ApplySpawns(r.w), hung |-> FALSE]

(* faulty variant: the receiver's journals are handed to the new Contraption *)
ReturnedWithJournals(c) ==
    NewContraption(c.marbles, c.output, c.pendingSpawns, c.pendingMoves, c.pendingDeletes)

(* new Contraption(this.width, this.height, grid, marbles, this.output) *)
Returned(c) == NewContraption(c.marbles, c.output, <<>>, <<>>, <<>>)

----------------------------------------------------------------------------
(* The query surface: getMarbles, getActiveRanges, getOutput, render(true) *)

getMarbles(w) == [i \in 1..Len(w.c.marbles) |-> w.heap[w.c.marbles[i]]]

(* the spans of the activated cells among cells k .. n-1, in row-major order *)
RECURSIVE ActiveIn(_, _, _)
ActiveIn(w, k, n) ==
    IF k >= n THEN <<>>
    ELSE IF n = k + 1
    THEN (IF <<k % Width(w), k \div Width(w)>> \in w.cellAct
          THEN <<CellSpan(k % Width(w), k \div Width(w))>> ELSE <<>>)
    ELSE ActiveIn(w, k, (k + n) \div 2) \o ActiveIn(w, (k + n) \div 2, n)

getActiveRanges(w) == ActiveIn(w, 0, Width(w) * Height(w))

getOutput(w) == w.c.output

(* the glyph of a cell: render() of its class (Air's middle dots are        *)
(* written as full stops) *)
Glyph(cell) ==
    CASE cell.class = "Air" -> <<".", ".">>
      [] cell.class = "Wall" -> <<"#", "#">>
      [] cell.class = "ErrorCell" -> <<"!", "!">>
      [] cell.class = "Output" -> <<"o", "o">>
      [] cell.class = "Increment" -> <<"+", "+">>
      [] cell.class = "Decrement" -> <<"-", "-">>
      [] cell.class = "Delete" -> <<"x", "x">>
      [] cell.class = "Sieve" -> <<"\"", "\"">>
      [] cell.class = "Conveyor" -> <<cell.direction, cell.direction>>
      [] cell.class = "Adder" ->
           IF cell.direction = "<" THEN <<"<", "+">> ELSE <<"+", cell.direction>>
      [] cell.class = "Cloner" ->
           IF cell.direction = "<" THEN <<"<", ":">> ELSE <<":", cell.direction>>

(* render(true): the last marble of the list at a cell is the one shown *)
render(w) ==
    [j \in 1..Height(w) |-> [i \in 1..Width(w) |->
        LET at == { n \in 1..Len(w.c.marbles) :
                      w.heap[w.c.marbles[n]].x = i - 1 /\ w.heap[w.c.marbles[n]].y = j - 1 }
        IN  IF at = {} THEN Glyph(w.grid[j][i])
            ELSE Hex2(w.heap[w.c.marbles[CHOOSE n \in at : \A o \in at : o <= n]].value)]]

Queries(w) ==
    [getMarbles |-> getMarbles(w), getActiveRanges |-> getActiveRanges(w),
     getOutput |-> getOutput(w), render |-> render(w)]

----------------------------------------------------------------------------
(* Program texts.  A row is written as its chunks; the source line is their *)
(* concatenation.  s, s1, ... are the chunks of the seed cells: two hex     *)
(* digits (a marble) or two blanks (no marble).                             *)

AIR == <<" ", " ">>
WALL == <<"#", "#">>
OUT == <<"o", "o">>
INC == <<"+", "+">>
DEC == <<"-", "-">>
DEL == <<"x", "x">>
SIEVE == <<"\"", "\"">>
RIGHT == <<">", ">">>
LEFT == <<"<", "<">>
UP == <<"^", "^">>
DOWN == <<"v", "v">>

Source(rows) == [j \in 1..Len(rows) |-> Concat(rows[j])]

SeedChunks == { <<"0", "0">>, <<"0", "1">>, <<"0", "7">>, <<"f", "f">>, AIR }

PresenceChunks == { <<"0", "1">>, AIR }

(* samples.countdown, with any seed in place of 0a *)
Countdown(s) ==
    Source(<< <<s>>,
              <<DEC, <<":", ">">>, OUT>>,
              <<SIEVE, AIR, DEL>>,
              <<DEL>> >>)

(* samples.fib *)
Fib ==
    Source(<< <<RIGHT, <<"0", "0">>, WALL, <<"0", "1">>, LEFT>>,
              <<UP, OUT, WALL, AIR, UP>>,
              <<UP, AIR, <<"+", ">">>, AIR, UP>>,
              <<UP, AIR, WALL, OUT, UP>>,
              <<UP, AIR, <<"<", "+">>, AIR, UP>>,
              <<UP, LEFT, WALL, RIGHT, UP>>,
              <<WALL, WALL, WALL, WALL, WALL>> >>)

(* two marbles dropping onto conveyors that face each other *)
Facing(s1, s2) == Source(<< <<s1, s2>>, <<RIGHT, LEFT>>, <<WALL, WALL>> >>)

(* up to three marbles dropping onto a row of right-facing conveyors, and   *)
(* one dropping onto a down-facing conveyor above the cell ahead of the row *)
Chain(s1, s2, s3, s4) ==
    Source(<< <<AIR, AIR, AIR, s4>>,
              <<s1, s2, s3, DOWN>>,
              <<RIGHT, RIGHT, RIGHT, AIR>>,
              <<WALL, WALL, WALL, WALL>> >>)

(* a marble dropping onto a conveyor while another drops onto the cell the  *)
(* conveyor pushes to; below is what lies under the two *)
Blocked(s1, s2, target, below) ==
    Source(<< <<s1, s2>>, <<RIGHT, target>>, <<below, below>>, <<WALL, WALL>> >>)

(* a directional cell c between two cells a and b, marbles dropping onto a  *)
(* and b, a floor below *)
Between(s1, s2, a, c, b) ==
    Source(<< <<s1, AIR, s2>>, <<a, c, b>>, <<WALL, WALL, WALL>> >>)

(* two cloners aimed at the same cell *)
TwoCloners(s1, s2) ==
    Source(<< <<s1, AIR, AIR, AIR, s2>>,
              <<AIR, <<":", ">">>, AIR, <<"<", ":">>, AIR>>,
              <<WALL, WALL, WALL, WALL, WALL>> >>)

(* a column: marbles falling towards a sieve *)
Column(s1, s2, s3) == Source(<< <<s1>>, <<s2>>, <<AIR>>, <<s3>>, <<SIEVE>>, <<AIR>> >>)

(* a marble passing an Output cell, then a Delete cell *)
OutputDelete(s) == Source(<< <<s>>, <<OUT>>, <<DEL>> >>)

(* a stack of marbles feeding a closed loop of four conveyors *)
Loop(s1, s2, s3, s4) ==
    Source(<< <<s1>>, <<s2>>, <<s3>>, <<s4>>, <<RIGHT, DOWN>>, <<UP, LEFT>>, <<WALL, WALL>> >>)

(* a marble on a Delete cell with another marble above it and a Cloner      *)
(* aimed at it *)
Drain(s1, s2, s3) ==
    Source(<< <<AIR, AIR, s1>>,
              <<s3, AIR, s2>>,
              <<AIR, <<":", ">">>, DEL>>,
              <<WALL, WALL, WALL>> >>)

(* the bottom row at the edges: a conveyor in the left corner pushing out   *)
(* of the grid, a Cloner in the right corner aimed out of the grid *)
Edge(s1, s2, s3, conv, cl) == Source(<< <<s1, s2, s3>>, <<conv, AIR, cl>> >>)

(* a conveyor pushing out of a grid one cell wide, air below it *)
Ledge(s, conv) == Source(<< <<s>>, <<conv>>, <<AIR>> >>)

(* a marble arriving above a Sieve while another is pushed, or cloned, into *)
(* the Sieve cell from the side; top is the cell above the Sieve *)
SieveGate(s1, s2, a, c, top) ==
    Source(<< <<AIR, AIR, s2>>,
              <<AIR, AIR, AIR>>,
              <<s1, AIR, top>>,
              <<a, c, SIEVE>>,
              <<WALL, WALL, AIR>> >>)

(* two marbles reaching Output cells of different rows at the same tick(),  *)
(* the one in the right column on the upper row *)
TwoOutputs(s1, s2) ==
    Source(<< <<AIR, s2>>,
              <<s1, AIR>>,
              <<AIR, OUT>>,
              <<OUT, AIR>>,
              <<DEL, DEL>> >>)

BetweenCells ==
    { <<INC, <<":", ">">>, AIR>>, <<DEC, <<":", ">">>, AIR>>, <<DEL, <<":", ">">>, AIR>>,
      <<AIR, <<"<", ":">>, INC>>, <<AIR, <<":", ">">>, OUT>>,
      <<AIR, <<"+", ">">>, AIR>>, <<INC, <<"+", ">">>, OUT>>, <<DEC, <<"<", "+">>, AIR>> }

Sources ==
    { Countdown(s) : s \in SeedChunks \cup { <<"0", "5">> } }
    \cup { Fib }
    \cup { Facing(s1, s2) : s1 \in PresenceChunks, s2 \in PresenceChunks }
    \cup { Chain(s1, s2, s3, s4) : s1 \in PresenceChunks, s2 \in PresenceChunks,
                                    s3 \in PresenceChunks, s4 \in PresenceChunks }
    \cup { Blocked(s1, s2, t, b) : s1 \in PresenceChunks, s2 \in PresenceChunks,
                                   t \in {AIR, DEL}, b \in {AIR, WALL} }
    \cup { Between(s1, s2, t[1], t[2], t[3]) : s1 \in SeedChunks, s2 \in SeedChunks, t \in BetweenCells }
    \cup { TwoCloners(s1, s2) : s1 \in SeedChunks, s2 \in SeedChunks }
    \cup { Column(s1, s2, s3) : s1 \in SeedChunks, s2 \in SeedChunks, s3 \in PresenceChunks }
    \cup { OutputDelete(s) : s \in SeedChunks \cup { <<"4", "1">> } }
    \cup { Loop(s1, s2, s3, s4) : s1 \in PresenceChunks, s2 \in PresenceChunks,
                                   s3 \in PresenceChunks, s4 \in PresenceChunks }
    \cup { Drain(s1, s2, s3) : s1 \in PresenceChunks, s2 \in PresenceChunks, s3 \in PresenceChunks }
    \cup { Edge(s1, s2, s3, conv, cl) : s1 \in PresenceChunks, s2 \in PresenceChunks, s3 \in PresenceChunks,
                                        conv \in {LEFT, DOWN}, cl \in { <<":", ">">>, <<":", "v">> } }
    \cup { Ledge(s, conv) : s \in PresenceChunks, conv \in {LEFT, RIGHT} }
    \cup { TwoOutputs(s1, s2) : s1 \in { <<"0", "1">>, <<"0", "7">> }, s2 \in { <<"0", "1">>, <<"f", "f">> } }
    \cup { SieveGate(<<"0", "1">>, s2, t[1], t[2], t[3]) :
              s2 \in { <<"0", "0">>, <<"0", "1">> },
              t \in { <<RIGHT, RIGHT, AIR>>, <<AIR, <<":", ">">>, LEFT>> } }

(* program texts with a line of odd length: "01x" over "oo", "oo+ " (odd    *)
(* once trimmed) and "0" over "xx" *)
OddSources ==
    { Source(<< <<<<"0", "1">>, <<"x">>>>, <<OUT>> >>),
      Source(<< <<OUT, <<"+">>, <<" ">>>> >>),
      Source(<< <<<<"0">>>>, <<DEL>> >>) }

(* what the clicks on Start are tried with: the marble over Output over     *)
(* Delete, the facing conveyors, a program with an unknown symbol, and the   *)
(* programs with a line of odd length *)
HostSources ==
    { OutputDelete(<<"0", "1">>), Facing(<<"0", "1">>, AIR),
      Source(<< <<AIR, <<"0", "1">>>>, <<<<"z", "z">>, OUT>> >>) }
    \cup OddSources

----------------------------------------------------------------------------
(* The state machine: start(), then the timer callbacks tick and            *)
(* moveMarbles; the page's buttons in HostSpec *)

World == [grid |-> grid, heap |-> heap, cellAct |-> cellAct, c |-> contraption]

ReceiverWorld == [grid |-> grid, heap |-> heap, cellAct |-> cellAct, c |-> receiver]

(* setTimeout: a handle no pending callback and no stored handle uses *)
NewTimer == Min({ i \in 1..(Cardinality(timers) + 2) : i # timeout /\ \A t \in timers : t.id # i })

(* clearTimeout(handle) *)
clearTimeout(pending, handle) == { t \in pending : t.id # handle }

(* the state start() leaves when compile(src) reports no diagnostic: the    *)
(* contraption built, and tick scheduled without its handle being stored *)
Started(src) ==
    LET res == compile(src)
        c0 == NewContraption([i \in 1..Len(res.marbles) |-> i], <<>>, <<>>, <<>>, <<>>)
    IN  /\ source' = src
        /\ errors' = res.errors
        /\ grid' = res.grid
        /\ heap' = res.marbles
        /\ cellAct' = {}
        /\ contraption' = c0
        /\ receiver' = c0
        /\ observed' = Queries([grid |-> res.grid, heap |-> res.marbles, cellAct |-> {}, c |-> c0])
        /\ pc' = "settled"
        /\ running' = TRUE
        /\ timers' = timers \cup {[id |-> NewTimer, fn |-> "tick"]}
        /\ UNCHANGED timeout

(* the page as loaded: nothing built, nothing scheduled *)
HostInit ==
    /\ grid = <<>>
    /\ errors = <<>>
    /\ heap = <<>>
    /\ cellAct = {}
    /\ contraption = NewContraption(<<>>, <<>>, <<>>, <<>>, <<>>)
    /\ receiver = NewContraption(<<>>, <<>>, <<>>, <<>>, <<>>)
    /\ observed = <<>>
    /\ pc = "idle"
    /\ cycles = 0
    /\ source = <<>>
    /\ running = FALSE
    /\ timers = {}
    /\ timeout = Null
    /\ starts = 0

(* the page after one start() on a program without diagnostics *)
Init ==
    \E src \in Sources :
        LET res == compile(src)
            c0 == NewContraption([i \in 1..Len(res.marbles) |-> i], <<>>, <<>>, <<>>, <<>>)
        IN  /\ grid = res.grid
            /\ errors = res.errors
            /\ heap = res.marbles
            /\ cellAct = {}
            /\ contraption = c0
            /\ receiver = c0
            /\ observed = Queries([grid |-> res.grid, heap |-> res.marbles, cellAct |-> {}, c |-> c0])
            /\ pc = "settled"
            /\ cycles = 0
            /\ source = src
            /\ running = TRUE
            /\ timers = {[id |-> 1, fn |-> "tick"]}
            /\ timeout = Null
            /\ starts = 1

(* faulty variant: start() goes on whatever compile() reports *)
StartUngated ==
    /\ ~running
    /\ pc # "hung"
    /\ starts < MaxStarts
    /\ starts' = starts + 1
    /\ UNCHANGED cycles
    /\ \E src \in HostSources : Started(src)

(* a click on Start (offered while not running): start() *)
Start ==
    /\ ~running
    /\ pc # "hung"
    /\ starts < MaxStarts
    /\ starts' = starts + 1
    /\ UNCHANGED cycles
    /\ \E src \in HostSources :
          IF compile(src).errors # <<>>
          THEN /\ source' = src
               /\ errors' = compile(src).errors
               /\ UNCHANGED <<grid, heap, cellAct, contraption, receiver, observed, pc,
                              running, timers, timeout>>
          ELSE Started(src)

(* stop(): the contraption is dropped and the stored handle cleared *)
Stopped(pending) ==
    /\ running' = FALSE
    /\ pc' = "stopped"
    /\ timers' = clearTimeout(pending, timeout)

(* a click on Stop (offered while running) *)
Stop ==
    /\ running
    /\ pc # "hung"
    /\ Stopped(timers)
    /\ UNCHANGED <<grid, errors, heap, cellAct, contraption, receiver, observed, cycles,
                   source, timeout, starts>>

(* the timer callback tick(): contraption = contraption.tick(), and the     *)
(* movement callback scheduled with its handle stored *)
Tick ==
    \E t \in timers :
        /\ t.fn = "tick"
        /\ pc # "hung"
        /\ IF ~running
           THEN /\ timers' = timers \ {t}
                /\ UNCHANGED <<grid, errors, heap, cellAct, contraption, receiver, observed,
                               pc, cycles, source, running, timeout, starts>>
           ELSE /\ cycles < MaxCycles
                /\ LET w == tick(World)
                   IN  /\ heap' = w.heap
                       /\ cellAct' = w.cellAct
                       /\ contraption' = w.c
                       /\ receiver' = w.c
                /\ observed' = Queries(World)
                /\ pc' = "ticked"
                /\ LET h == CHOOSE i \in 1..(Cardinality(timers) + 2) :
                                i # t.id /\ i # timeout /\ \A o \in timers : o.id # i
                   IN  /\ timers' = (timers \ {t}) \cup {[id |-> h, fn |-> "move"]}
                       /\ timeout' = h
                /\ UNCHANGED <<grid, errors, cycles, source, running, starts>>

(* the movement callback: contraption = contraption.moveMarbles(), stop()   *)
(* when no marble is left, and tick scheduled again with its handle stored; *)
(* a call that never returns leaves the page inside it for good *)
MoveMarbles ==
    \E t \in timers :
        /\ t.fn = "move"
        /\ pc # "hung"
        /\ IF ~running
           THEN /\ timers' = timers \ {t}
                /\ UNCHANGED <<grid, errors, heap, cellAct, contraption, receiver, observed,
                               pc, cycles, source, running, timeout, starts>>
           ELSE LET r == moveMarbles(World)
                    h == CHOOSE i \in 1..(Cardinality(timers) + 2) :
                             i # t.id /\ i # timeout /\ \A o \in timers : o.id # i
                IN  /\ heap' = r.w.heap
                    /\ cellAct' = r.w.cellAct
                    /\ receiver' = r.w.c
                    /\ contraption' = IF r.hung THEN r.w.c ELSE Returned(r.w.c)
                    /\ observed' = Queries(World)
                    /\ cycles' = IF r.hung THEN cycles ELSE cycles + 1
                    /\ IF r.hung
                       THEN pc' = "hung" /\ UNCHANGED <<running, timers, timeout>>
                       ELSE /\ timeout' = h
                            /\ IF r.w.c.marbles = <<>>
                               THEN /\ running' = FALSE
                                    /\ pc' = "stopped"
                                    /\ timers' = clearTimeout(timers \ {t}, timeout)
                                                    \cup {[id |-> h, fn |-> "tick"]}
                               ELSE /\ pc' = "settled"
                                    /\ timers' = (timers \ {t}) \cup {[id |-> h, fn |-> "tick"]}
                                    /\ UNCHANGED running
                    /\ UNCHANGED <<grid, errors, source, starts>>

(* the timer callbacks alone: one start(), then whatever is scheduled *)
Next == Tick \/ MoveMarbles

(* the page with its buttons *)
HostNext == Start \/ Stop \/ Tick \/ MoveMarbles

Spec == Init /\ [][Next]_vars

HostSpec == HostInit /\ [][HostNext]_vars

(* A timer of the running page comes due: one of the two callbacks runs and *)
(* the page leaves the phase it is in.  Every step of Next taken while the   *)
(* page runs is such a step, and no other step changes pc.                   *)
TimerFires ==
    \E t \in timers :
        /\ running
        /\ pc # "hung"
        /\ t.fn = "tick" => cycles < MaxCycles
        /\ pc' \in {"ticked", "settled", "stopped", "hung"}

(* setTimeout runs a callback that is not cleared: a timer that stays due   *)
(* is fired in the end *)
FairSpec == Spec /\ WF_pc(TimerFires)

----------------------------------------------------------------------------
(* Vocabulary of the properties *)

Live == { contraption.marbles[i] : i \in 1..Len(contraption.marbles) }

Pos(hp, id) == <<hp[id].x, hp[id].y>>

Returns == pc \in {"settled", "stopped", "ticked"}

(* the step is a call of tick() *)
TickStep == pc = "settled" /\ pc' = "ticked"

(* the step is a call of moveMarbles() that returns *)
MoveStep == pc = "ticked" /\ pc' \in {"settled", "stopped"}

----------------------------------------------------------------------------
(* C1 - Mutual exclusion: in every state returned by moveMarbles() no two   *)
(* distinct live marbles are on the same coordinate.                        *)
C1_MutualExclusion ==
    (pc \in {"settled", "stopped"}) =>
        \A i, j \in 1..Len(contraption.marbles) :
            i # j => Pos(heap, contraption.marbles[i]) # Pos(heap, contraption.marbles[j])

(* a movement phase that materialised a spawn next to other marbles, after  *)
(* one that committed a conveyor move or settled a marble *)
C1_Witness ==
    /\ pc = "settled"
    /\ cycles >= 2
    /\ Len(contraption.marbles) >= 2
    /\ Len(contraption.marbles) > Len(observed.getMarbles)
    /\ \E id \in Live : \E k \in 1..Len(observed.getMarbles) :
           heap[id].movedThisTick /\ observed.getMarbles[k].movedThisTick = FALSE

(* C2 - Move-queue termination: on every state tick() returns, the move     *)
(* resolution loop of moveMarbles() terminates.                             *)
C2_MoveQueueTerminates == (pc = "ticked") => ~AfterMoves(World).hung

(* C3 - Wraparound: the value tick() leaves in a live marble is the value v *)
(* it held when the scan finished, reduced to ((v mod 256) + 256) mod 256   *)
(* (the mathematical residue, which is what % is in TLA+).                  *)
C3_Wraparound ==
    [][TickStep =>
        LET scanned == Scan(resetActivation(resetMarbles(World)), 0)
        IN  \A id \in Live : heap'[id].value = scanned.heap[id].value % ByteModulus]_vars

(* C4 - Value range: in every state returned by tick() or moveMarbles()     *)
(* every live marble's value is in [0, 255].                                *)
C4_ValueRange ==
    Returns => \A id \in Live : heap[id].value >= 0 /\ heap[id].value <= ByteModulus - 1

(* C5 - Snapshot immutability: the queries of the state a transition was    *)
(* called on return after the call what they returned before it.            *)
C5_SnapshotImmutable == Returns => Queries(ReceiverWorld) = observed

----------------------------------------------------------------------------
(* The Cloner cells, by scan index, and what the scan has done before one *)

CellCount == Width(World) * Height(World)

CellX(k) == k % Width(World)

CellY(k) == k \div Width(World)

IsCloner(k) == getCell(World, CellX(k), CellY(k)).class = "Cloner"

Behind(k) == move(CellX(k), CellY(k), opposite(getCell(World, CellX(k), CellY(k)).direction))

Ahead(k) == move(CellX(k), CellY(k), getCell(World, CellX(k), CellY(k)).direction)

(* the world as tick() has it when the scan reaches cell k *)
ScannedBefore(k) == ScanTo(resetActivation(resetMarbles(World)), 0, k)

(* the Cloner at k queues a spawn in this tick *)
ClonerFires(k) ==
    /\ IsCloner(k)
    /\ Len(CellTick(ScannedBefore(k), CellX(k), CellY(k)).heap) > Len(ScannedBefore(k).heap)

(* the Marble object that spawn creates *)
SpawnOf(k) == Len(ScannedBefore(k).heap) + 1

(* C6 as claimed - Consistent before-snapshot: a Cloner's spawn carries the *)
(* value its source marble had before the phase started, whatever cells     *)
(* were scanned before the Cloner.                                          *)
C6_ReadsPrePhaseValues ==
    [][TickStep =>
        \A k \in 0..(CellCount - 1) :
            ClonerFires(k) =>
                heap'[SpawnOf(k)].value = heap[getMarble(World, Behind(k)[1], Behind(k)[2])].value]_vars

(* C6 as amended - a cell effect reads each marble's value as the cells     *)
(* scanned before it in row-major order have left it (not yet clamped), so  *)
(* the result depends on the scan order: the spawn a Cloner queues carries  *)
(* its source's value at the moment the Cloner is scanned.                  *)
C6_ReadsScanTimeValues ==
    [][TickStep =>
        \A k \in 0..(CellCount - 1) :
            ClonerFires(k) =>
                LET before == ScannedBefore(k)
                IN  heap'[SpawnOf(k)].value =
                        before.heap[getMarble(before, Behind(k)[1], Behind(k)[2])].value]_vars

(* a tick in which a right-facing Cloner's source stood on an Increment     *)
(* (scanned first) and the queued spawn carries the incremented value *)
C6_Witness ==
    /\ pc = "ticked"
    /\ \E i \in 1..Len(contraption.marbles) :
          LET pre == observed.getMarbles[i]
          IN  /\ getCell(World, pre.x, pre.y).class = "Increment"
              /\ getCell(World, pre.x + 1, pre.y) = NewCell("Cloner", ">")
              /\ \E k \in 1..Len(contraption.pendingSpawns) :
                    /\ heap[contraption.pendingSpawns[k]].x = pre.x + 2
                    /\ heap[contraption.pendingSpawns[k]].value = pre.value + 1

(* the journals of the state tick() returned *)
HasPendingMove(id) ==
    \E k \in 1..Len(contraption.pendingMoves) : contraption.pendingMoves[k].marble = id

HasPendingDelete(id) ==
    \E k \in 1..Len(contraption.pendingDeletes) : contraption.pendingDeletes[k] = id

(* C7 - Gravity: a live marble with no pending move falls by exactly one    *)
(* row in one moveMarbles() when, at the start of the gravity pass, the     *)
(* cell below is in the grid, non-solid and empty; it stays where it is     *)
(* when that cell is solid or outside the grid, or holds a marble that does *)
(* not fall; it never falls by more than one row and never moves sideways.  *)
C7_Gravity ==
    [][MoveStep =>
        LET g == AfterMoves(World).w
        IN  \A id \in Live :
              (~HasPendingMove(id) /\ ~HasPendingDelete(id)) =>
                LET x == heap[id].x
                    y == heap[id].y
                    below == getMarble(g, x, y + 1)
                    outside == getCell(g, x, y + 1) = NoCell
                IN  /\ heap'[id].x = x
                    /\ heap'[id].y \in {y, y + 1}
                    /\ (~outside /\ ~isSolid(g, x, y + 1) /\ below = Null) => heap'[id].y = y + 1
                    /\ (outside \/ isSolid(g, x, y + 1)) => heap'[id].y = y
                    /\ (below # Null /\ Pos(heap', below) = Pos(g.heap, below)) => heap'[id].y = y]_vars

(* a marble that fell one row although the row after that was clear too *)
C7_Witness ==
    /\ pc = "settled"
    /\ Len(contraption.marbles) = Len(observed.getMarbles)
    /\ \E i \in 1..Len(contraption.marbles) :
          LET m == heap[contraption.marbles[i]]
          IN  /\ m.y = observed.getMarbles[i].y + 1
              /\ m.x = observed.getMarbles[i].x
              /\ getCell(World, m.x, m.y + 1) # NoCell
              /\ ~isSolid(World, m.x, m.y + 1)
              /\ getMarble(World, m.x, m.y + 1) = Null

----------------------------------------------------------------------------
(* Chains of marbles on a row of right-facing conveyors *)

(* n marbles on the consecutive cells x0 .. x0+n-1 of row y, all of them    *)
(* right-facing conveyors, and the cell ahead of the leading marble in the  *)
(* grid, non-solid and unoccupied *)
ChainAt(x0, y, n) ==
    /\ \A i \in 0..(n - 1) :
          /\ getCell(World, x0 + i, y) = NewCell("Conveyor", ">")
          /\ getMarble(World, x0 + i, y) # Null
    /\ getCell(World, x0 + n, y) # NoCell
    /\ ~isSolid(World, x0 + n, y)
    /\ getMarble(World, x0 + n, y) = Null

(* a marble that is not of the chain is queued to move into the cell ahead *)
OutsiderAhead(x0, y, n) ==
    \E k \in 1..Len(contraption.pendingMoves) :
        /\ contraption.pendingMoves[k].targetX = x0 + n
        /\ contraption.pendingMoves[k].targetY = y
        /\ LET m == heap[contraption.pendingMoves[k].marble]
           IN  ~(m.y = y /\ m.x >= x0 /\ m.x < x0 + n)

(* moveMarbles() returns with every marble of the chain one cell to the     *)
(* right on the same row, still live *)
ChainAdvances(x0, y, n) ==
    LET r == moveMarbles(World)
    IN  /\ ~r.hung
        /\ \A i \in 0..(n - 1) :
              LET id == getMarble(World, x0 + i, y)
              IN  /\ Pos(r.w.heap, id) = <<x0 + i + 1, y>>
                  /\ indexOf(r.w.c.marbles, id) >= 0

----------------------------------------------------------------------------
(* Blocked moves *)

Mover(k) == contraption.pendingMoves[k].marble

(* the live marble on the target of the k-th pending move, or Null *)
Blocker(k) ==
    getMarble(World, contraption.pendingMoves[k].targetX, contraption.pendingMoves[k].targetY)

(* the k-th pending move aims at a cell occupied by a live marble that has  *)
(* no pending move of its own *)
BlockedMove(k) == Blocker(k) # Null /\ ~HasPendingMove(Blocker(k))

(* what gravity may still do to a marble the move queue left in place: the  *)
(* same column, the same row or the next one down, the same row when the    *)
(* cell below is solid or outside the grid; the marble stays live *)
StaysButForGravity(id) ==
    LET g == AfterMoves(World).w
        x == heap[id].x
        y == heap[id].y
    IN  /\ id \in { contraption'.marbles[i] : i \in 1..Len(contraption'.marbles) }
        /\ heap'[id].x = x
        /\ heap'[id].y \in {y, y + 1}
        /\ (getCell(g, x, y + 1) = NoCell \/ isSolid(g, x, y + 1)) => heap'[id].y = y

(* C9 as claimed - Blocked move: in the state moveMarbles() returns neither *)
(* the position of the marble whose move was blocked nor the position of    *)
(* the marble that blocked it has changed.                                  *)
C9_BlockedMoveKeepsPositions ==
    [][MoveStep =>
        \A k \in 1..Len(contraption.pendingMoves) :
            BlockedMove(k) =>
                /\ Pos(heap', Mover(k)) = Pos(heap, Mover(k))
                /\ Pos(heap', Blocker(k)) = Pos(heap, Blocker(k))]_vars

(* C9 as amended - when the blocking marble has no pending move and stands  *)
(* on no Delete cell, the request is dropped: neither marble is moved by    *)
(* the move queue, both stay live, and both remain subject to gravity, so   *)
(* each keeps its column and is on its row or one row lower, on its row     *)
(* when the cell below it is solid or outside the grid.                     *)
C9_BlockedMoveLeftToGravity ==
    [][MoveStep =>
        \A k \in 1..Len(contraption.pendingMoves) :
            (BlockedMove(k) /\ ~HasPendingDelete(Blocker(k))) =>
                /\ ~heap'[Mover(k)].movedThisTick \/ Pos(heap', Mover(k)) = Pos(heap, Mover(k))
                /\ StaysButForGravity(Mover(k))
                /\ StaysButForGravity(Blocker(k))]_vars

(* a marble on a right-facing conveyor with a marble resting on plain air   *)
(* ahead of it: after the movement phase both are one row lower, in their   *)
(* columns *)
C9_Witness ==
    /\ pc = "settled"
    /\ \E i, j \in 1..Len(observed.getMarbles) :
          LET a == observed.getMarbles[i]
              b == observed.getMarbles[j]
          IN  /\ getCell(World, a.x, a.y) = NewCell("Conveyor", ">")
              /\ b.x = a.x + 1 /\ b.y = a.y
              /\ getCell(World, b.x, b.y) = Air
              /\ Len(contraption.marbles) = Len(observed.getMarbles)
              /\ getMarbles(World)[i].x = a.x /\ getMarbles(World)[i].y = a.y + 1
              /\ getMarbles(World)[j].x = b.x /\ getMarbles(World)[j].y = b.y + 1

----------------------------------------------------------------------------
(* Clones and spawn collisions *)

LiveAfter == { contraption'.marbles[i] : i \in 1..Len(contraption'.marbles) }

(* when the scan reaches it, the Cloner at k has a marble on the cell       *)
(* behind its facing, and the cell ahead exists and is non-solid *)
ClonerArmed(k) ==
    /\ IsCloner(k)
    /\ getMarble(ScannedBefore(k), Behind(k)[1], Behind(k)[2]) # Null
    /\ getCell(World, Ahead(k)[1], Ahead(k)[2]) # NoCell
    /\ ~isSolid(ScannedBefore(k), Ahead(k)[1], Ahead(k)[2])

(* tick(): every armed Cloner queues one spawn at the cell ahead, carrying  *)
(* the value its origin holds when the Cloner is scanned, and changes       *)
(* neither that value nor the live set; the request reaches the state       *)
(* tick() returns as it was queued *)
CloneQueued ==
    \A k \in 0..(CellCount - 1) :
        ClonerArmed(k) =>
            LET before == ScannedBefore(k)
                after == CellTick(before, CellX(k), CellY(k))
                origin == getMarble(before, Behind(k)[1], Behind(k)[2])
                new == SpawnOf(k)
            IN  /\ after.c.pendingSpawns = Append(before.c.pendingSpawns, new)
                /\ after.c.marbles = before.c.marbles
                /\ after.c.pendingDeletes = before.c.pendingDeletes
                /\ after.heap[origin].value = before.heap[origin].value
                /\ after.heap[new].value = before.heap[origin].value
                /\ Pos(after.heap, new) = Ahead(k)
                /\ \E j \in 1..Len(contraption'.pendingSpawns) : contraption'.pendingSpawns[j] = new
                /\ heap'[new].value = after.heap[new].value
                /\ Pos(heap', new) = Ahead(k)
                /\ origin \in LiveAfter

(* the j-th spawn request finds its target free: no live marble is on it    *)
(* after gravity, and no earlier request of the journal aims at it *)
TargetFree(j) ==
    LET new == contraption.pendingSpawns[j]
    IN  /\ getMarble(AfterGravity(World).w, heap[new].x, heap[new].y) = Null
        /\ \A i \in 1..(j - 1) : Pos(heap, contraption.pendingSpawns[i]) # Pos(heap, new)

(* moveMarbles(): a requested marble joins the live set, with its value at  *)
(* its target, exactly when its target is free; otherwise it is dropped;    *)
(* the live set gains nothing else, and no coordinate gains two marbles *)
SpawnsApplied ==
    /\ \A j \in 1..Len(contraption.pendingSpawns) :
          LET new == contraption.pendingSpawns[j]
          IN  /\ new \in LiveAfter <=> TargetFree(j)
              /\ new \in LiveAfter => heap'[new] = heap[new]
    /\ LiveAfter \ Live = { contraption.pendingSpawns[j] : j \in { i \in 1..Len(contraption.pendingSpawns) : TargetFree(i) } }
    /\ Len(contraption'.marbles) = Cardinality(LiveAfter)
    /\ \A a, b \in LiveAfter \ Live : Pos(heap', a) = Pos(heap', b) => a = b

(* the sources of the Cloners that fired in the tick() before *)
ClonedSources ==
    { getMarble(World, Behind(k)[1], Behind(k)[2]) :
        k \in { i \in 0..(CellCount - 1) : IsCloner(i) /\ <<CellX(i), CellY(i)>> \in cellAct } }

(* C10 as claimed - Clone and spawn collision: one full cycle leaves the    *)
(* origin of a Cloner in the live set with its value unchanged by the       *)
(* Cloner, and adds one new marble with the source's value at the cell      *)
(* ahead if and only if that cell holds no live marble when spawns are      *)
(* applied; otherwise the spawn is dropped.                                 *)
C10_CloneKeepsSource ==
    [][/\ TickStep => CloneQueued
       /\ MoveStep => (SpawnsApplied /\ \A origin \in ClonedSources : origin \in LiveAfter)]_vars

(* C10 as amended - the same, the origin staying in the live set unless it  *)
(* stands on a Delete cell, which removes it in the same cycle; the value   *)
(* the new marble carries is the one the origin held when the Cloner was    *)
(* scanned.                                                                 *)
C10_CloneKeepsSourceUnlessDeleted ==
    [][/\ TickStep => CloneQueued
       /\ MoveStep =>
            /\ SpawnsApplied
            /\ \A origin \in ClonedSources :
                  origin \in LiveAfter <=> getCell(World, heap[origin].x, heap[origin].y).class # "Delete"]_vars

(* two Cloners aimed at one free cell fired, and the movement phase added   *)
(* one marble, on that cell *)
C10_Witness ==
    /\ pc = "settled"
    /\ Len(contraption.marbles) = Len(observed.getMarbles) + 1
    /\ \E x \in 1..(Width(World) - 2) : \E y \in 0..(Height(World) - 1) :
          /\ getCell(World, x - 1, y) = NewCell("Cloner", ">")
          /\ getCell(World, x + 1, y) = NewCell("Cloner", "<")
          /\ CellSpan(x - 1, y) \in { observed.getActiveRanges[i] : i \in 1..Len(observed.getActiveRanges) }
          /\ CellSpan(x + 1, y) \in { observed.getActiveRanges[i] : i \in 1..Len(observed.getActiveRanges) }
          /\ heap[contraption.marbles[Len(contraption.marbles)]].x = x
          /\ heap[contraption.marbles[Len(contraption.marbles)]].y = y

----------------------------------------------------------------------------
(* Adders *)

IsAdder(k) == getCell(World, CellX(k), CellY(k)).class = "Adder"

(* the world tick() has when the scan has finished, before the clamp *)
Scanned == Scan(resetActivation(resetMarbles(World)), 0)

(* what the Adder at k does when it is scanned: with a marble A behind and  *)
(* a marble B ahead, B becomes A + B, A keeps its value and the cell is     *)
(* activated; with either absent nothing changes *)
AdderStep(k) ==
    LET before == ScannedBefore(k)
        after == CellTick(before, CellX(k), CellY(k))
        A == getMarble(before, Behind(k)[1], Behind(k)[2])
        B == getMarble(before, Ahead(k)[1], Ahead(k)[2])
    IN  IF A # Null /\ B # Null
        THEN /\ after.heap[B].value = before.heap[A].value + before.heap[B].value
             /\ after.heap[A].value = before.heap[A].value
             /\ <<CellX(k), CellY(k)>> \in after.cellAct
        ELSE /\ after = before
             /\ <<CellX(k), CellY(k)>> \notin after.cellAct

(* C11 - Adder arithmetic: when an Adder is scanned with marble A behind    *)
(* and marble B ahead, B becomes A.value + B.value and A is unchanged, and  *)
(* the value tick() returns for B is the value the scan left reduced to a   *)
(* byte (its residue modulo 256); with A or B absent the Adder changes      *)
(* nothing and is not activated.                                            *)
C11_AdderArithmetic ==
    [][TickStep =>
        \A k \in 0..(CellCount - 1) :
            IsAdder(k) =>
                /\ AdderStep(k)
                /\ LET B == getMarble(World, Ahead(k)[1], Ahead(k)[2])
                   IN  (B # Null /\ getMarble(World, Behind(k)[1], Behind(k)[2]) # Null) =>
                           heap'[B].value = Scanned.heap[B].value % ByteModulus]_vars

----------------------------------------------------------------------------
(* Output and Delete cells *)

IsPrefix(p, q) == Len(p) <= Len(q) /\ SubSeq(q, 1, Len(p)) = p

(* the number a line of decimal digits denotes, "-" first when negative *)
RECURSIVE DecimalNat(_)
DecimalNat(line) ==
    IF line = <<>> THEN 0
    ELSE 10 * DecimalNat(SubSeq(line, 1, Len(line) - 1))
         + (CHOOSE d \in 0..9 : DecDigits[d + 1] = line[Len(line)])

DecimalValue(line) ==
    IF line # <<>> /\ line[1] = "-" THEN 0 - DecimalNat(Tail(line)) ELSE DecimalNat(line)

IsDecimal(line) ==
    /\ line # <<>>
    /\ \A i \in 1..Len(line) :
          (i = 1 /\ Len(line) > 1 /\ line[i] = "-") \/ (\E d \in 1..10 : DecDigits[d] = line[i])

(* the Output cell at k, scanned with a marble on it, appends one line to   *)
(* the output buffer: the decimal numeral of the marble's value, then a     *)
(* newline *)
OutputStep(k) ==
    LET before == ScannedBefore(k)
        after == CellTick(before, CellX(k), CellY(k))
        marble == getMarble(before, CellX(k), CellY(k))
        n == Len(after.c.output) - Len(before.c.output)
        line == SubSeq(after.c.output, Len(before.c.output) + 1, Len(after.c.output) - 1)
    IN  marble # Null =>
            /\ n >= 2
            /\ IsPrefix(before.c.output, after.c.output)
            /\ after.c.output[Len(after.c.output)] = "\n"
            /\ IsDecimal(line)
            /\ DecimalValue(line) = before.heap[marble].value
            /\ IsPrefix(after.c.output, contraption'.output)

(* C12 - Output then delete: a marble on an Output cell at a tick() has the *)
(* line decimal(v) + newline appended to the output buffer, v its value     *)
(* when the cell is scanned; the buffer only ever grows; and a marble on a  *)
(* Delete cell at a tick() is not in the live set after the moveMarbles()   *)
(* that follows.                                                            *)
C12_OutputThenDelete ==
    [][/\ TickStep =>
            \A k \in 0..(CellCount - 1) :
                getCell(World, CellX(k), CellY(k)).class = "Output" => OutputStep(k)
       /\ IsPrefix(contraption.output, contraption'.output)
       /\ MoveStep =>
            \A id \in Live :
                getCell(World, heap[id].x, heap[id].y).class = "Delete" => id \notin LiveAfter]_vars

(* the marble of value 65 dropped over an Output cell directly above a      *)
(* Delete cell: the output is "65" and a newline, and no marble remains *)
C12_Witness ==
    /\ pc = "stopped"
    /\ contraption.marbles = <<>>
    /\ contraption.output = <<"6", "5", "\n">>
    /\ getCell(World, 0, 1).class = "Output"
    /\ getCell(World, 0, 2).class = "Delete"
    /\ Len(heap) = 1 /\ heap[1].x = 0 /\ heap[1].y = 2

----------------------------------------------------------------------------
(* The countdown sample seeded with 5 *)

Countdown5 == Countdown(<<"0", "5">>)

CountdownLines == <<"4", "\n", "3", "\n", "2", "\n", "1", "\n", "0", "\n">>

NoMarbleLeft == pc # "hung" /\ contraption.marbles = <<>>

(* C13 - End-to-end countdown: the countdown sample seeded with one marble  *)
(* of value 5, run by tick() and moveMarbles() in alternation, eventually   *)
(* has no live marble, and whenever it has none the output buffer is        *)
(* exactly the lines 4, 3, 2, 1, 0.                                         *)
C13_Countdown ==
    /\ (source = Countdown5) ~> (source = Countdown5 /\ NoMarbleLeft)
    /\ []((source = Countdown5 /\ NoMarbleLeft) => contraption.output = CountdownLines)

(* the run of the sample has ended: no marble, the five lines printed *)
C13_Witness ==
    /\ source = Countdown5
    /\ pc = "stopped"
    /\ contraption.marbles = <<>>
    /\ contraption.output = CountdownLines
    /\ cycles = 8

----------------------------------------------------------------------------
(* every Marble object keeps its coordinates over the step *)
PositionsKept == \A m \in DOMAIN heap : heap'[m].x = heap[m].x /\ heap'[m].y = heap[m].y

(* the live list holds the same objects in the same order after the step *)
LiveSetKept == contraption'.marbles = contraption.marbles

(* the three journals only grow over the step *)
JournalsAppended ==
    /\ IsPrefix(contraption.pendingSpawns, contraption'.pendingSpawns)
    /\ IsPrefix(contraption.pendingMoves, contraption'.pendingMoves)
    /\ IsPrefix(contraption.pendingDeletes, contraption'.pendingDeletes)

(* C14 - Effect-phase frame: tick() changes no marble's x or y and adds no   *)
(* marble to and removes none from the live list; the grid is kept, the      *)
(* output buffer and the three journals are only appended to.  A step that   *)
(* changes a position or the live list is a moveMarbles().                   *)
C14_TickFrame ==
    [][/\ TickStep => /\ PositionsKept
                      /\ LiveSetKept
                      /\ grid' = grid
                      /\ DOMAIN heap \subseteq DOMAIN heap'
                      /\ IsPrefix(contraption.output, contraption'.output)
                      /\ JournalsAppended
       /\ (~PositionsKept \/ ~LiveSetKept) => MoveStep]_vars

(* a tick() has queued a spawn and a deletion and printed a line, the live  *)
(* marbles still in place *)
C14_Witness ==
    /\ pc = "ticked"
    /\ contraption.pendingSpawns # <<>>
    /\ contraption.pendingDeletes # <<>>
    /\ contraption.output # <<>>
    /\ contraption.marbles # <<>>

----------------------------------------------------------------------------
(* the step is a call of start() *)
StartStep == starts' = starts + 1

(* the step applies tick() or moveMarbles() to the contraption *)
EngineStep ==
    /\ starts' = starts
    /\ heap' # heap \/ contraption' # contraption \/ cellAct' # cellAct \/ cycles' # cycles

NoErrorCell(g) == \A y \in 1..Len(g) : \A x \in 1..Len(g[y]) : g[y][x].class # "ErrorCell"

(* C15 - Diagnostic gating: a start() whose compile() returns diagnostics   *)
(* leaves the page not running, schedules no timer and installs no           *)
(* contraption; tick() and moveMarbles() are applied only to a contraption   *)
(* whose program gave no diagnostic and whose grid holds no Error cell.      *)
C15_DiagnosticGating ==
    [][/\ (StartStep /\ errors' # <<>>) =>
              /\ ~running'
              /\ timers' = timers
              /\ UNCHANGED <<grid, heap, cellAct, contraption, receiver, pc, timeout>>
       /\ running' => errors' = <<>> /\ NoErrorCell(grid')
       /\ EngineStep => running /\ errors = <<>> /\ NoErrorCell(grid)]_vars

(* a start() has been refused for its diagnostics while a tick scheduled by *)
(* an earlier start() is still pending *)
C15_Witness ==
    /\ errors # <<>>
    /\ ~running
    /\ starts = 2
    /\ \E t \in timers : t.fn = "tick"

----------------------------------------------------------------------------
(* the number of whole 2-character chunks of a line, trailing whitespace    *)
(* removed *)
Pairs(line) == Len(trimEnd(line)) \div 2

OddLine(line) == Len(trimEnd(line)) % 2 = 1

(* the lines (1-based) of odd length in the text start() was last called on *)
OddLines == { j \in 1..Len(source) : OddLine(source[j]) }

(* the diagnostics the last start() got that point at cell x of line y *)
ErrorsAt(x, y) == { i \in 1..Len(errors) : errors[i].span = CellSpan(x, y) }

(* C16 - Program text chunking, as stated: a line of length 2k+1 (trailing  *)
(* whitespace removed) yields exactly k cells before padding, and its last   *)
(* character gives no cell and no diagnostic.                                *)
C16_OddCharacterIgnored ==
    \A j \in OddLines :
        /\ Len(CompileRow(source[j], j - 1).cells) = Pairs(source[j])
        /\ ErrorsAt(Pairs(source[j]), j - 1) = {}

(* C16 - Program text chunking, as the code does it: each line is cut into  *)
(* consecutive 2-character chunks, a line of 2k characters yielding k cells  *)
(* before padding; the last character of a line of 2k+1 characters is a      *)
(* chunk of its own, which yields cell k of the row, an Error cell, and one  *)
(* diagnostic naming that character with the span of cell k.                 *)
C16_OddCharacterIsErrorCell ==
    \A j \in 1..Len(source) :
        LET row == CompileRow(source[j], j - 1)
            k == Pairs(source[j])
            line == trimEnd(source[j])
        IN  /\ \A i \in 1..k : Chunks(line)[i] = SubSeq(line, 2 * i - 1, 2 * i)
            /\ ~OddLine(source[j]) => Len(row.cells) = k
            /\ OddLine(source[j]) =>
                  /\ Len(row.cells) = k + 1
                  /\ row.cells[k + 1].class = "ErrorCell"
                  /\ \E i \in ErrorsAt(k, j - 1) :
                        errors[i].message = <<"Unknown symbol", <<line[Len(line)]>>>>
                  /\ Cardinality(ErrorsAt(k, j - 1)) = 1
                  /\ ~running

(* start() has been called on a text with a line of odd length behind        *)
(* trailing whitespace, and has got diagnostics *)
C16_Witness ==
    /\ \E j \in OddLines : Len(source[j]) > Len(trimEnd(source[j]))
    /\ errors # <<>>
    /\ starts > 0

----------------------------------------------------------------------------
(* the marbles queued for deletion *)
Doomed == { contraption.pendingDeletes[k] : k \in 1..Len(contraption.pendingDeletes) }

Survivors == Live \ Doomed

MoveTarget(k) == <<contraption.pendingMoves[k].targetX, contraption.pendingMoves[k].targetY>>

(* the only live marbles on p are queued for deletion, and there is one *)
DoomedOnlyAt(p) ==
    /\ \E d \in Live \cap Doomed : Pos(heap, d) = p
    /\ \A m \in Survivors : Pos(heap, m) # p

NoMoveOnto(p) == \A k \in 1..Len(contraption.pendingMoves) : MoveTarget(k) # p

(* the first move aimed at a cell held only by a doomed marble is committed *)
MoveOntoDoomed ==
    \A k \in 1..Len(contraption.pendingMoves) :
        ( /\ Mover(k) \in Survivors
          /\ DoomedOnlyAt(MoveTarget(k))
          /\ \A i \in 1..(k - 1) : MoveTarget(i) # MoveTarget(k) )
        => Pos(heap', Mover(k)) = MoveTarget(k)

(* a marble left to gravity above a cell held only by a doomed marble falls *)
(* into it *)
FallOntoDoomed ==
    \A m \in Survivors :
        ( /\ ~HasPendingMove(m)
          /\ DoomedOnlyAt(<<heap[m].x, heap[m].y + 1>>)
          /\ NoMoveOnto(<<heap[m].x, heap[m].y + 1>>) )
        => Pos(heap', m) = <<heap[m].x, heap[m].y + 1>>

(* a spawn aimed at a cell held only by a doomed marble, which nothing      *)
(* moves or falls into, is materialised *)
SpawnOntoDoomed ==
    \A j \in 1..Len(contraption.pendingSpawns) :
        LET new == contraption.pendingSpawns[j]
        IN  ( /\ DoomedOnlyAt(Pos(heap, new))
              /\ NoMoveOnto(Pos(heap, new))
              /\ \A m \in Survivors : Pos(heap, m) # <<heap[new].x, heap[new].y - 1>>
              /\ \A i \in 1..(j - 1) : Pos(heap, contraption.pendingSpawns[i]) # Pos(heap, new) )
            => new \in LiveAfter

(* a spawn is materialised exactly when no surviving marble is on its       *)
(* coordinate where the call leaves it, nor an earlier spawn of the call *)
SpawnTestedAfterSettling ==
    \A j \in 1..Len(contraption.pendingSpawns) :
        LET new == contraption.pendingSpawns[j]
            earlier == { contraption.pendingSpawns[i] : i \in 1..(j - 1) } \cap LiveAfter
        IN  new \in LiveAfter <=>
                \A m \in Survivors \cup earlier : Pos(heap', m) # Pos(heap', new)

(* C17 - Movement sub-phase ordering: one moveMarbles() applies the         *)
(* deletions, then the moves, then gravity, then the spawns.  The marbles    *)
(* queued for deletion are gone from the live list it leaves; a marble       *)
(* queued for deletion blocks neither a move, nor a fall, nor a spawn aimed  *)
(* at its coordinate; a spawn is tested against the positions the moves and  *)
(* gravity of the same call have left.                                       *)
C17_SubPhaseOrdering ==
    [][MoveStep => /\ LiveAfter \cap Live = Survivors
                   /\ MoveOntoDoomed
                   /\ FallOntoDoomed
                   /\ SpawnOntoDoomed
                   /\ SpawnTestedAfterSettling]_vars

(* a moveMarbles() has deleted the marble on the Delete cell, let the       *)
(* marble above fall into the cell, and refused the Cloner's spawn there *)
C17_Witness ==
    /\ source = Drain(<<"0", "1">>, <<"0", "1">>, <<"0", "1">>)
    /\ pc = "settled"
    /\ cycles = 2
    /\ Len(contraption.marbles) = 2
    /\ getMarble(World, 2, 2) # Null

----------------------------------------------------------------------------
(* the orders a list can be in *)
Orders(seq) ==
    { [i \in 1..Len(seq) |-> seq[f[i]]] :
        f \in { g \in [1..Len(seq) -> 1..Len(seq)] : \A a, b \in 1..Len(seq) : a # b => g[a] # g[b] } }

(* the gravity loop run on the world the move queue leaves, the live list   *)
(* in the given order *)
GravityIn(order) ==
    LET w == [AfterMoves(World).w EXCEPT !.c.marbles = order]
    IN  Gravity(w, Unmoved(w, order), 0)

(* the gravity loop ends whatever the order of the live list, and leaves    *)
(* every marble where it leaves it for the order the list is in *)
GravityOrderFree ==
    (pc = "ticked" /\ ~AfterMoves(World).hung) =>
        \A order \in Orders(AfterMoves(World).w.c.marbles) :
            /\ ~GravityIn(order).hung
            /\ \A m \in DOMAIN heap :
                  Pos(GravityIn(order).w.heap, m) = Pos(AfterGravity(World).w.heap, m)

(* the surviving marble directly below m, both left to gravity *)
Below(m, b) ==
    /\ m \in Survivors /\ b \in Survivors
    /\ ~HasPendingMove(m) /\ ~HasPendingMove(b)
    /\ Pos(heap, b) = <<heap[m].x, heap[m].y + 1>>

(* C18 - Gravity pass: the gravity loop of moveMarbles() ends in every      *)
(* reachable configuration, and the positions it leaves do not depend on     *)
(* the order of the marbles in the live list; a marble above a marble that   *)
(* stays stays too, and a marble above a marble that falls waits for it and  *)
(* falls one cell in the same pass when the cell is not solid to it (a       *)
(* stack over one clear cell all fall one cell).                             *)
C18_GravityPass ==
    /\ []GravityOrderFree
    /\ [][MoveStep =>
             \A m \in Survivors : \A b \in Survivors :
                 Below(m, b) =>
                    /\ Pos(heap', b) = Pos(heap, b) => Pos(heap', m) = Pos(heap, m)
                    /\ (Pos(heap', b) # Pos(heap, b) /\ ~isSolid(World, heap[b].x, heap[b].y)) =>
                          /\ Pos(heap', b) = <<heap[b].x, heap[b].y + 1>>
                          /\ Pos(heap', m) = <<heap[m].x, heap[m].y + 1>>]_vars

(* a stack of two, the upper one first in the live list, has fallen one     *)
(* cell in one pass *)
C18_Witness ==
    /\ source = Column(<<"0", "1">>, <<"0", "1">>, AIR)
    /\ pc = "settled"
    /\ cycles = 1
    /\ contraption.marbles = <<1, 2>>
    /\ Pos(heap, 1) = <<0, 1>>
    /\ Pos(heap, 2) = <<0, 2>>

----------------------------------------------------------------------------
(* the step is the tick callback applying contraption.tick() *)
HostTick == starts' = starts /\ running /\ running' /\ pc' = "ticked" /\ timers' # timers

(* the step is the movement callback applying contraption.moveMarbles() *)
HostMove == starts' = starts /\ running /\ cycles' = cycles + 1

JournalsEmpty ==
    /\ contraption.pendingSpawns = <<>>
    /\ contraption.pendingMoves = <<>>
    /\ contraption.pendingDeletes = <<>>

(* the transitions applied to the current contraption alternate, tick()     *)
(* first: a tick() follows start() or a moveMarbles(), on empty journals,    *)
(* and a moveMarbles() follows a tick() *)
Alternates ==
    /\ HostTick => pc = "settled" /\ JournalsEmpty
    /\ HostMove => pc = "ticked"

(* C19 - Host step alternation: whatever the interleaving of Start clicks,  *)
(* Stop clicks and timer callbacks, the transitions applied to the current   *)
(* contraption strictly alternate tick(), moveMarbles(), beginning with      *)
(* tick(); tick() is never applied while the journals are unconsumed; and at *)
(* most one timer is pending at any time.                                    *)
C19_HostAlternation ==
    /\ [][Alternates]_vars
    /\ [](Cardinality(timers) <= 1)

----------------------------------------------------------------------------
(* the marbles with a request in the move journal *)
Movers == { Mover(k) : k \in 1..Len(contraption.pendingMoves) }

(* C20 - Journal discipline: the state moveMarbles() returns has empty      *)
(* spawn, move and deletion journals; in the state tick() returns no marble  *)
(* has two requests in the move journal or two in the deletion journal, and  *)
(* every marble in the move or the deletion journal is live; moveMarbles()   *)
(* removes from the live list exactly the marbles queued for deletion.       *)
C20_JournalDiscipline ==
    /\ []((pc \in {"settled", "stopped"}) => JournalsEmpty)
    /\ []((pc = "ticked") =>
             /\ Cardinality(Movers) = Len(contraption.pendingMoves)
             /\ Cardinality(Doomed) = Len(contraption.pendingDeletes)
             /\ Movers \subseteq Live
             /\ Doomed \subseteq Live)
    /\ [][MoveStep => /\ Live \ LiveAfter = Doomed
                       /\ Len(contraption'.marbles) = Cardinality(LiveAfter)]_vars

(* a tick() has queued a move and a deletion *)
C20_Witness ==
    /\ pc = "ticked"
    /\ contraption.pendingMoves # <<>>
    /\ contraption.pendingDeletes # <<>>

----------------------------------------------------------------------------
IsSieve(k) == getCell(World, CellX(k), CellY(k)).class = "Sieve"

(* the live marbles on the cell directly above cell k *)
Above(k) == { m \in Live : Pos(heap, m) = <<CellX(k), CellY(k) - 1>> }

(* the marble rests above cell k and is left to gravity, and the cell is    *)
(* neither held by a surviving marble nor the target of a move *)
RestsAbove(m, k) ==
    /\ m \in Above(k)
    /\ ~HasPendingMove(m) /\ ~HasPendingDelete(m)

CellFree(k) ==
    /\ \A o \in Survivors : Pos(heap, o) # <<CellX(k), CellY(k)>>
    /\ NoMoveOnto(<<CellX(k), CellY(k)>>)

(* C21 - Sieve solidity: the Sieve's isSolid is false exactly when a live   *)
(* marble of value 0 is on the cell directly above it, and true otherwise    *)
(* (no marble above, or one of non-zero value); in moveMarbles() a marble of *)
(* value 0 resting directly above a free Sieve falls into the Sieve cell,    *)
(* and a marble of non-zero value stays above it.                            *)
C21_SieveSolidity ==
    /\ [](Returns => \A k \in 0..(CellCount - 1) : IsSieve(k) =>
             (isSolid(World, CellX(k), CellY(k)) <=> ~\E m \in Above(k) : heap[m].value = 0))
    /\ [][MoveStep => \A k \in 0..(CellCount - 1) : \A m \in Live :
             (IsSieve(k) /\ RestsAbove(m, k)) =>
                /\ (heap[m].value = 0 /\ CellFree(k)) => Pos(heap', m) = <<CellX(k), CellY(k)>>
                /\ heap[m].value # 0 => Pos(heap', m) = Pos(heap, m)]_vars

(* the countdown's marble has reached 0 and fallen into the Sieve cell *)
C21_Witness ==
    /\ source = Countdown5
    /\ pc = "settled"
    /\ \E m \in Live : heap[m].value = 0 /\ getCell(World, heap[m].x, heap[m].y).class = "Sieve"

----------------------------------------------------------------------------
(* the effect of cell k fires in the tick() taken from this state: a marble *)
(* on a Conveyor or an affector, marbles behind and ahead of an Adder, an    *)
(* armed Cloner *)
EffectFires(k) ==
    LET class == getCell(World, CellX(k), CellY(k)).class
    IN  CASE class \in {"Conveyor", "Output", "Increment", "Decrement", "Delete"} ->
               getMarble(World, CellX(k), CellY(k)) # Null
          [] class = "Adder" ->
               /\ getMarble(World, Behind(k)[1], Behind(k)[2]) # Null
               /\ getMarble(World, Ahead(k)[1], Ahead(k)[2]) # Null
          [] class = "Cloner" -> ClonerArmed(k)
          [] OTHER -> FALSE

Fired == { <<CellX(k), CellY(k)>> : k \in { j \in 0..(CellCount - 1) : EffectFires(j) } }

(* in the state tick() returns the flagged cells are those whose effect     *)
(* fired in that tick(); in the state moveMarbles() returns no cell is       *)
(* flagged and getActiveRanges() is empty *)
CellFlags ==
    /\ [][TickStep => cellAct' = Fired]_vars
    /\ []((pc \in {"settled", "stopped"}) => cellAct = {} /\ getActiveRanges(World) = <<>>)

(* C22 - Activation visibility, as stated: the cells flagged in the state   *)
(* tick() returns are exactly those whose effect fired in that tick(); in    *)
(* the state moveMarbles() returns no cell and no live marble, the marbles   *)
(* just materialised from spawns included, is flagged activated, and         *)
(* getActiveRanges() is empty.                                               *)
C22_NoFlagAfterMovement ==
    /\ CellFlags
    /\ []((pc \in {"settled", "stopped"}) => \A m \in Live : ~heap[m].activatedThisTick)

(* C22 - Activation visibility, as the code has it: the cells flagged in    *)
(* the state tick() returns are exactly those whose effect fired in that     *)
(* tick(); in the state moveMarbles() returns no cell is flagged and         *)
(* getActiveRanges() is empty, and the live marbles flagged activated are    *)
(* exactly those the call has just materialised from spawns.                 *)
C22_FlagOnSpawnedOnly ==
    /\ CellFlags
    /\ [][MoveStep => \A m \in LiveAfter : heap'[m].activatedThisTick <=> m \notin Live]_vars

(* moveMarbles() has returned a state with a freshly spawned marble that is *)
(* flagged activated, no cell being flagged *)
C22_Witness ==
    /\ pc = "settled"
    /\ cellAct = {}
    /\ cycles > 0
    /\ \E m \in Live : heap[m].activatedThisTick
    /\ \E m \in Live : ~heap[m].activatedThisTick

----------------------------------------------------------------------------
InGrid(p) == p[1] >= 0 /\ p[1] < Width(World) /\ p[2] >= 0 /\ p[2] < Height(World)

(* the k-th pending move is a surviving marble's and aims outside the grid *)
MoveOutside(k) == Mover(k) \in Survivors /\ ~InGrid(MoveTarget(k))

(* every live marble is inside the grid; a marble on the bottom row that    *)
(* has no pending move keeps its position; a Cloner aimed outside the grid   *)
(* queues no spawn and is not activated *)
Bounded ==
    /\ [](Returns => \A m \in Live : InGrid(Pos(heap, m)))
    /\ [][MoveStep => \A m \in Survivors :
             (heap[m].y = Height(World) - 1 /\ ~HasPendingMove(m)) => Pos(heap', m) = Pos(heap, m)]_vars
    /\ [][TickStep =>
             /\ \A j \in 1..Len(contraption'.pendingSpawns) :
                    InGrid(Pos(heap', contraption'.pendingSpawns[j]))
             /\ \A k \in 0..(CellCount - 1) :
                    (IsCloner(k) /\ ~InGrid(Ahead(k))) => <<CellX(k), CellY(k)>> \notin cellAct']_vars

(* C23 - Bounds and absence, as stated: every live marble is inside the     *)
(* grid in every reachable state; a conveyor move whose target lies outside  *)
(* the grid is dropped and the marble's position is unchanged; a marble on   *)
(* the bottom row does not fall; a Cloner whose target lies outside the grid *)
(* queues no spawn.                                                          *)
C23_OutsideMoveKeepsPosition ==
    /\ Bounded
    /\ [][MoveStep => \A k \in 1..Len(contraption.pendingMoves) :
             MoveOutside(k) => Pos(heap', Mover(k)) = Pos(heap, Mover(k))]_vars

(* C23 - Bounds and absence, as the code has it: every live marble is       *)
(* inside the grid in every reachable state; a conveyor move whose target    *)
(* lies outside the grid is dropped, the move queue leaving the marble where *)
(* it is and to the gravity pass of the same moveMarbles() (its column kept, *)
(* its row or the next one down, its row when the cell below is solid or     *)
(* outside the grid); a marble on the bottom row does not fall; a Cloner     *)
(* whose target lies outside the grid queues no spawn.                       *)
C23_OutsideMoveLeftToGravity ==
    /\ Bounded
    /\ [][MoveStep => \A k \in 1..Len(contraption.pendingMoves) :
             MoveOutside(k) =>
                /\ ~heap'[Mover(k)].movedThisTick \/ Pos(heap', Mover(k)) = Pos(heap, Mover(k))
                /\ StaysButForGravity(Mover(k))]_vars

(* on the bottom row, a marble sits on the corner conveyor that pushes out  *)
(* of the grid and another behind the Cloner aimed out of the grid, two      *)
(* cycles on *)
C23_Witness ==
    /\ source = Edge(<<"0", "1">>, <<"0", "1">>, AIR, LEFT, <<":", ">">>)
    /\ pc = "settled"
    /\ cycles = 3
    /\ Len(contraption.marbles) = 2
    /\ getMarble(World, 0, 1) # Null
    /\ getMarble(World, 1, 1) # Null

----------------------------------------------------------------------------
(* the classes whose isSolid is true whatever the marbles *)
AlwaysSolid == {"Wall", "ErrorCell", "Adder", "Cloner"}

ClassAt(p) == getCell(World, p[1], p[2]).class

(* moveMarbles() places the marble on a Sieve cell: it is live in the state *)
(* returned, on a Sieve cell, and was not there before *)
EntersSieve(m) ==
    /\ m \in LiveAfter
    /\ ClassAt(Pos(heap', m)) = "Sieve"
    /\ m \notin Live \/ Pos(heap', m) # Pos(heap, m)

(* a live marble of value 0 is on the cell above p, or has a move there *)
ZeroAbove(p) ==
    \E o \in Live :
        /\ heap[o].value = 0
        /\ \/ Pos(heap, o) = <<p[1], p[2] - 1>>
           \/ \E k \in 1..Len(contraption.pendingMoves) :
                 Mover(k) = o /\ MoveTarget(k) = <<p[1], p[2] - 1>>

----------------------------------------------------------------------------
(* the values to print in the tick() taken from this state: for the cells   *)
(* k .. CellCount-1 in row-major order, the value the marble on each Output  *)
(* cell holds when the scan reaches the cell *)
RECURSIVE OutputValues(_)
OutputValues(k) ==
    IF k >= CellCount THEN <<>>
    ELSE (IF ClassAt(<<CellX(k), CellY(k)>>) = "Output" /\ getMarble(World, CellX(k), CellY(k)) # Null
          THEN <<ScannedBefore(k).heap[getMarble(World, CellX(k), CellY(k))].value>>
          ELSE <<>>) \o OutputValues(k + 1)

(* a text cut at its newlines; the text after the last newline is the last  *)
(* element, empty when the text ends with a newline *)
RECURSIVE SplitLines(_, _)
SplitLines(chars, line) ==
    IF chars = <<>> THEN <<line>>
    ELSE IF Head(chars) = "\n" THEN <<line>> \o SplitLines(Tail(chars), <<>>)
    ELSE SplitLines(Tail(chars), Append(line, Head(chars)))

(* what the step appends to the output buffer *)
Appended == SubSeq(contraption'.output, Len(contraption.output) + 1, Len(contraption'.output))

(* C25 - Output buffer is append-only: over every tick() and moveMarbles()  *)
(* the output of the state returned has the output of the state it was       *)
(* produced from as a prefix; moveMarbles() returns exactly the output it    *)
(* was given; tick() appends exactly one line, the decimal numeral of the    *)
(* value followed by a newline, per Output cell that holds a marble when it  *)
(* is scanned, in row-major order of the cells, with the value the marble    *)
(* has when the cell is scanned.                                             *)
C25_OutputAppendOnly ==
    [][/\ IsPrefix(contraption.output, contraption'.output)
       /\ MoveStep => contraption'.output = contraption.output
       /\ TickStep =>
            LET lines == SplitLines(Appended, <<>>)
                values == OutputValues(0)
            IN  /\ Len(lines) = Len(values) + 1
                /\ lines[Len(lines)] = <<>>
                /\ \A i \in 1..Len(values) :
                      IsDecimal(lines[i]) /\ DecimalValue(lines[i]) = values[i]]_vars

(* one tick() has printed 255, for the marble on the Output cell of the     *)
(* upper row, and then 7, for the marble on the Output cell of the row below *)
C25_Witness ==
    /\ pc = "ticked"
    /\ source = TwoOutputs(<<"0", "7">>, <<"f", "f">>)
    /\ contraption.output = <<"2", "5", "5", "\n", "7", "\n">>

====
